---- MODULE Spec2Model ----
(***************************************************************************)
(* A model of the fact-checker agent's content-normalisation tools         *)
(* (src/tools.py), its configuration (src/config.py), the agent wrapper    *)
(* (src/agent.py) and the request handler process_url (src/app.py).        *)
(*                                                                         *)
(* Python strings are sequences of one-character strings, so that          *)
(* searching, slicing, formatting and concatenation are computed and not   *)
(* assumed.  A call either returns a value or raises an exception of a     *)
(* class: both are a record [ok, exc, val].                                *)
(***************************************************************************)
EXTENDS Integers, Sequences, FiniteSets, TLC

VARIABLES call, env, req

vars == <<call, env, req>>

----------------------------------------------------------------------------
(* Results of calls and Python's exception classes.                        *)

Ret(v) == [ok |-> TRUE, exc |-> "", val |-> v]

Raise(cls, msg) == [ok |-> FALSE, exc |-> cls, val |-> msg]

\* the classes each exception class is an instance of (itself and its bases
\* below BaseException), as `except <cls>` tests it
Bases(cls) ==
    CASE cls = "ValueError"         -> {"ValueError", "Exception"}
      [] cls = "TypeError"          -> {"TypeError", "Exception"}
      [] cls = "OSError"            -> {"OSError", "Exception"}
      [] cls = "RequestException"   -> {"RequestException", "OSError", "Exception"}
      [] cls = "JSONDecodeError"    -> {"JSONDecodeError", "RequestException",
                                        "ValueError", "OSError", "Exception"}
      [] cls = "TranscriptsDisabled" -> {"TranscriptsDisabled", "Exception"}
      [] cls = "NoTranscriptFound"  -> {"NoTranscriptFound", "Exception"}
      [] OTHER                      -> {cls, "Exception"}

IsInstance(cls, base) == base \in Bases(cls)

----------------------------------------------------------------------------
(* String helpers.                                                         *)

StartsWith(s, p) == Len(p) <= Len(s) /\ SubSeq(s, 1, Len(p)) = p

EndsWith(s, p) == Len(p) <= Len(s) /\ SubSeq(s, Len(s) - Len(p) + 1, Len(s)) = p

\* the literal lit occurs in s at position i
HasAt(s, i, lit) ==
    /\ i >= 1
    /\ i + Len(lit) - 1 <= Len(s)
    /\ SubSeq(s, i, i + Len(lit) - 1) = lit

RECURSIVE Flatten(_)
Flatten(ss) == IF ss = <<>> THEN <<>> ELSE Head(ss) \o Flatten(Tail(ss))

\* a greedy character class [^excl]*: the index of the last character of the
\* longest run that starts at i and stays outside excl (i - 1 when it is empty)
RECURSIVE RunEnd(_, _, _)
RunEnd(s, i, excl) ==
    IF i > Len(s) \/ s[i] \in excl THEN i - 1 ELSE RunEnd(s, i + 1, excl)

----------------------------------------------------------------------------
(* _extract_video_id: two regular expressions tried in order with          *)
(* re.search (leftmost match, greedy quantifiers).                         *)

s_watch_v == <<"y","o","u","t","u","b","e",".","c","o","m","/","w","a","t","c","h","?","v","=">>

s_youtu_be == <<"y","o","u","t","u",".","b","e","/">>

s_embed == <<"y","o","u","t","u","b","e",".","c","o","m","/","e","m","b","e","d","/">>

s_watch == <<"y","o","u","t","u","b","e",".","c","o","m","/","w","a","t","c","h","?">>

s_v == <<"v","=">>

s_could_not_extract == <<"C","o","u","l","d"," ","n","o","t"," ","e","x","t","r","a","c","t"," ","v","i","d","e","o"," ","I","D"," ","f","r","o","m"," ","U","R","L",":"," ">>

\* pattern 1: (?:youtube\.com/watch\?v=|youtu\.be/|youtube\.com/embed/)([^&\?/]+)
Pattern1Alternatives == {s_watch_v, s_youtu_be, s_embed}

Pattern1Excluded == {"&", "?", "/"}

\* pattern 2: youtube\.com/watch\?.*v=([^&]+)
Pattern2Excluded == {"&"}

\* `.` matches every character but a newline
DotExcluded == {"\n"}

\* where the group of pattern 1 starts when an alternative matches at i, else 0
Pattern1GroupStart(s, i) ==
    IF \E a \in Pattern1Alternatives : HasAt(s, i, a)
    THEN i + Len(CHOOSE a \in Pattern1Alternatives : HasAt(s, i, a))
    ELSE 0

Pattern1MatchAt(s, i) ==
    LET g == Pattern1GroupStart(s, i)
    IN  g # 0 /\ RunEnd(s, g, Pattern1Excluded) >= g

\* re.search: the leftmost position from i on where pattern 1 matches, else 0
RECURSIVE Pattern1Search(_, _)
Pattern1Search(s, i) ==
    IF i > Len(s) THEN 0
    ELSE IF Pattern1MatchAt(s, i) THEN i
    ELSE Pattern1Search(s, i + 1)

Pattern1Group(s, i) ==
    LET g == Pattern1GroupStart(s, i)
    IN  SubSeq(s, g, RunEnd(s, g, Pattern1Excluded))

\* the greedy `.*` gives characters back one at a time: the largest q in p..hi
\* where "v=" stands followed by at least one character of the group, else 0
RECURSIVE Pattern2Backtrack(_, _, _)
Pattern2Backtrack(s, q, p) ==
    IF q < p THEN 0
    ELSE IF HasAt(s, q, s_v) /\ RunEnd(s, q + 2, Pattern2Excluded) >= q + 2 THEN q
    ELSE Pattern2Backtrack(s, q - 1, p)

\* where "v=" of pattern 2 stands when the pattern matches at i, else 0
Pattern2VAt(s, i) ==
    IF HasAt(s, i, s_watch)
    THEN LET p == i + Len(s_watch)
         IN  Pattern2Backtrack(s, RunEnd(s, p, DotExcluded) + 1, p)
    ELSE 0

RECURSIVE Pattern2Search(_, _)
Pattern2Search(s, i) ==
    IF i > Len(s) THEN 0
    ELSE IF Pattern2VAt(s, i) # 0 THEN i
    ELSE Pattern2Search(s, i + 1)

Pattern2Group(s, i) ==
    LET q == Pattern2VAt(s, i)
    IN  SubSeq(s, q + 2, RunEnd(s, q + 2, Pattern2Excluded))

\* mutant: the fallback pattern tried before the first pattern
ExtractFallbackFirst(url) ==
    LET i1 == Pattern1Search(url, 1)
        i2 == Pattern2Search(url, 1)
    IN  IF i2 # 0 THEN Ret(Pattern2Group(url, i2))
        ELSE IF i1 # 0 THEN Ret(Pattern1Group(url, i1))
        ELSE Raise("ValueError", s_could_not_extract \o url)

_extract_video_id(url) ==
    LET i1 == Pattern1Search(url, 1)
        i2 == Pattern2Search(url, 1)
    IN  IF i1 # 0 THEN Ret(Pattern1Group(url, i1))
        ELSE IF i2 # 0 THEN Ret(Pattern2Group(url, i2))
        ELSE Raise("ValueError", s_could_not_extract \o url)

----------------------------------------------------------------------------
(* The URLs the video-identifier operations are applied to: a head followed *)
(* by up to MaxUrlTokens tokens.                                           *)

MaxUrlTokens == 3

s_https_www == <<"h","t","t","p","s",":","/","/","w","w","w",".">>

s_other_param == <<"t","=","1","&">>

UrlHeads == {<<>>, s_https_www, s_watch, s_watch \o s_other_param}

UrlTokens ==
    {s_watch, s_v, s_youtu_be, s_embed,
     <<"&">>, <<"?">>, <<"/">>, <<"a">>, <<"#">>, <<"=">>, <<"\n">>}

TokenSeqs(n) == UNION {[1..k -> UrlTokens] : k \in 0..n}

Urls == {h \o Flatten(ts) : h \in UrlHeads, ts \in TokenSeqs(MaxUrlTokens)}

----------------------------------------------------------------------------

\* a call that has not run yet has no result
NoResult == [ok |-> FALSE, exc |-> "", val |-> <<>>]

\* a call: the function, its arguments and what its collaborators will do,
\* whether it has run, its result, and the services it sent requests to
Pending(fn, in) == [fn |-> fn, in |-> in, done |-> FALSE, out |-> NoResult, net |-> {}]

Done(c, out) == [c EXCEPT !.done = TRUE, !.out = out]

DoneNet(c, out, net) == [c EXCEPT !.done = TRUE, !.out = out, !.net = net]

EnvAllKeys == [openrouter_key |-> TRUE, serper_key |-> TRUE]

ReqIdle == [pc |-> "idle"]

InitVideoId ==
    /\ call \in {Pending("_extract_video_id", [url |-> u]) : u \in Urls}
    /\ env = EnvAllKeys
    /\ req = ReqIdle

ExtractVideoId ==
    /\ call.fn = "_extract_video_id" /\ ~call.done
    /\ call' = Done(call, _extract_video_id(call.in.url))
    /\ UNCHANGED <<env, req>>

NextVideoId == ExtractVideoId

SpecVideoId == InitVideoId /\ [][NextVideoId]_vars

----------------------------------------------------------------------------
(* Claims about _extract_video_id.                                         *)

Letters ==
    {"a","b","c","d","e","f","g","h","i","j","k","l","m","n","o","p","q","r","s","t","u","v","w","x","y","z",
     "A","B","C","D","E","F","G","H","I","J","K","L","M","N","O","P","Q","R","S","T","U","V","W","X","Y","Z"}

Digits == {"0","1","2","3","4","5","6","7","8","9"}

\* the characters of [A-Za-z0-9_-]
IdChars == Letters \cup Digits \cup {"_", "-"}

ValidId(x) == Len(x) >= 1 /\ \A k \in 1..Len(x) : x[k] \in IdChars

IdCall == call.fn = "_extract_video_id" /\ call.done

\* u is pre, then the marker m, then the identifier u[g..e], then the rest
SplitsAs(u, pre, m, g, e) ==
    /\ g = Len(pre) + Len(m) + 1
    /\ e >= g /\ e <= Len(u)
    /\ SubSeq(u, 1, g - 1) = pre \o m
    /\ ValidId(SubSeq(u, g, e))

\* a first-pattern marker stands at i, followed by a character an identifier
\* may start with
FirstShapeAt(u, i) ==
    \E m \in {s_watch_v, s_youtu_be, s_embed} :
        /\ HasAt(u, i, m)
        /\ i + Len(m) <= Len(u)
        /\ u[i + Len(m)] \notin {"&", "?", "/"}

\* "youtube.com/watch?" stands at i and "v=" at q, on the same line, followed
\* by a character other than "&"
FallbackShapeAt(u, i, q) ==
    /\ HasAt(u, i, s_watch)
    /\ q >= i + Len(s_watch)
    /\ HasAt(u, q, s_v)
    /\ \A k \in (i + Len(s_watch))..(q - 1) : u[k] # "\n"
    /\ q + 2 <= Len(u)
    /\ u[q + 2] # "&"

HasFirstShape(u) == \E i \in 1..Len(u) : FirstShapeAt(u, i)

HasFallbackShape(u) == \E i \in 1..Len(u) : \E q \in 1..Len(u) : FallbackShapeAt(u, i, q)

\* x is u[g..e], the longest stretch from g that has no character of stop
LongestFrom(u, g, x, stop) ==
    \E e \in g..Len(u) :
        /\ x = SubSeq(u, g, e)
        /\ \A k \in g..e : u[k] \notin stop
        /\ (e = Len(u) \/ u[e + 1] \in stop)

\* C3: a URL of an accepted shape (watch?v=X, youtu.be/X, embed/X, optionally
\* followed by "&", "?" or "/" and anything, or watch?<other params>&v=X)
\* yields X; a URL in which neither shape stands anywhere fails with
\* ValueError; and where a first-pattern shape stands anywhere, the leftmost
\* one decides the result, the fallback deciding only when there is none.
C3_ExtractByShape ==
    IdCall =>
        LET u == call.in.url
            out == call.out
        IN  /\ \A pre \in {<<>>, s_https_www} : \A m \in {s_watch_v, s_youtu_be, s_embed} :
                  \A e \in 1..Len(u) :
                      ( /\ SplitsAs(u, pre, m, Len(pre) + Len(m) + 1, e)
                        /\ (e = Len(u) \/ u[e + 1] \in {"&", "?", "/"}) )
                      => out = Ret(SubSeq(u, Len(pre) + Len(m) + 1, e))
            /\ \A pre \in {<<>>, s_https_www} :
                  LET m == s_watch \o s_other_param \o s_v
                  IN  SplitsAs(u, pre, m, Len(pre) + Len(m) + 1, Len(u))
                      => out = Ret(SubSeq(u, Len(pre) + Len(m) + 1, Len(u)))
            /\ (~HasFirstShape(u) /\ ~HasFallbackShape(u))
                  <=> out = Raise("ValueError", s_could_not_extract \o u)
            /\ HasFirstShape(u) =>
                  \E i \in 1..Len(u) : \E m \in {s_watch_v, s_youtu_be, s_embed} :
                      /\ FirstShapeAt(u, i) /\ HasAt(u, i, m)
                      /\ \A j \in 1..(i - 1) : ~FirstShapeAt(u, j)
                      /\ out.ok
                      /\ LongestFrom(u, i + Len(m), out.val, {"&", "?", "/"})
            /\ (~HasFirstShape(u) /\ HasFallbackShape(u)) =>
                  \E i \in 1..Len(u) : \E q \in 1..Len(u) :
                      /\ FallbackShapeAt(u, i, q)
                      /\ out.ok
                      /\ LongestFrom(u, q + 2, out.val, {"&"})

\* witness of C3: both shapes stand in the URL, they capture different text,
\* and the call has returned
C3_Witness ==
    /\ IdCall
    /\ call.in.url = s_watch_v \o <<"a", "/">>
    /\ Pattern2Group(call.in.url, 1) = <<"a", "/">>
    /\ call.out = Ret(<<"a">>)

\* C4 as stated: every identifier returned is a non-empty string of
\* characters of [A-Za-z0-9_-]
C4_IdCharsOnly == (IdCall /\ call.out.ok) => ValidId(call.out.val)

----------------------------------------------------------------------------
(* _get_video_transcript.  The transcript provider (youtube-transcript-api) *)
(* is the record prov: what api.list does, the tracks it lists, each        *)
(* track's entries and what transcript.fetch does.  An entry's start offset *)
(* is a Python float; the model counts it in tenths of a second.            *)

s_disabled == <<"T","r","a","n","s","c","r","i","p","t","s"," ","a","r","e"," ","d","i","s","a","b","l","e","d"," ","f","o","r"," ","v","i","d","e","o"," ">>

s_not_found == <<"N","o"," ","t","r","a","n","s","c","r","i","p","t"," ","f","o","u","n","d"," ","f","o","r"," ","v","i","d","e","o"," ">>

s_none_available == <<"N","o"," ","t","r","a","n","s","c","r","i","p","t","s"," ","a","v","a","i","l","a","b","l","e"," ","f","o","r"," ","v","i","d","e","o"," ">>

s_error_fetching == <<"E","r","r","o","r"," ","f","e","t","c","h","i","n","g"," ","t","r","a","n","s","c","r","i","p","t",":"," ">>

\* str() of the TypeError of a NoTranscriptFound that takes more than a message
s_missing_arguments == <<"_","_","i","n","i","t","_","_","(",")"," ","m","i","s","s","i","n","g"," ","2"," ","r","e","q","u","i","r","e","d"," ","p","o","s","i","t","i","o","n","a","l"," ","a","r","g","u","m","e","n","t","s">>

DigitChar(d) == <<"0","1","2","3","4","5","6","7","8","9">>[d + 1]

\* str(n) of an integer n >= 0
RECURSIVE IntToStr(_)
IntToStr(n) == IF n < 10 THEN <<DigitChar(n)>> ELSE IntToStr(n \div 10) \o <<DigitChar(n % 10)>>

\* f"{n:02d}" of an integer n >= 0
Format02d(n) == IF n < 10 THEN <<"0">> \o IntToStr(n) ELSE IntToStr(n)

\* '\n'.join(lines)
RECURSIVE Join(_, _)
Join(lines, sep) ==
    IF lines = <<>> THEN <<>>
    ELSE IF Len(lines) = 1 THEN lines[1]
    ELSE lines[1] \o sep \o Join(Tail(lines), sep)

\* int(timestamp // 60) and int(timestamp % 60) of a start offset in tenths
Minutes(start) == start \div 600

Seconds(start) == (start % 600) \div 10

\* mutant: the seconds rounded to the nearest instead of truncated
FormatEntryRounded(entry, include_timestamps) ==
    IF include_timestamps
    THEN <<"[">> \o Format02d(Minutes(entry.start)) \o <<":">>
         \o Format02d(((entry.start % 600) + 5) \div 10) \o <<"]", ",", " ">> \o entry.text
    ELSE entry.text

FormatEntry(entry, include_timestamps) ==
    IF include_timestamps
    THEN <<"[">> \o Format02d(Minutes(entry.start)) \o <<":">>
         \o Format02d(Seconds(entry.start)) \o <<"]", ",", " ">> \o entry.text
    ELSE entry.text

FormatEntries(entries, include_timestamps) ==
    Join([k \in 1..Len(entries) |-> FormatEntry(entries[k], include_timestamps)], <<"\n">>)

\* transcript_list.find_transcript([code]): the track, manual ones first
HasTrack(prov, code) ==
    \E k \in 1..Len(prov.manual \o prov.generated) : (prov.manual \o prov.generated)[k] = code

\* the body of the try block: the value returned or the exception raised in it
TranscriptTry(video_id, include_timestamps, prov) ==
    IF prov.list = "disabled" THEN Raise("TranscriptsDisabled", prov.msg)
    ELSE IF prov.list = "error" THEN Raise(prov.exc, prov.msg)
    ELSE LET available_languages == prov.manual \o prov.generated
             found == HasTrack(prov, "en") \/ available_languages # <<>>
             code == IF HasTrack(prov, "en") THEN "en" ELSE available_languages[1]
         IN  IF ~found
             THEN IF prov.ctor_ok
                  THEN Raise("NoTranscriptFound", s_none_available \o video_id)
                  ELSE Raise("TypeError", s_missing_arguments)
             ELSE IF prov.fetch = "error" THEN Raise(prov.exc, prov.msg)
             ELSE Ret(FormatEntries(prov.entries[code], include_timestamps))

\* mutant: a failure of transcript.fetch returns the empty text
TranscriptDegraded(video_id, include_timestamps, prov) ==
    LET r == TranscriptTry(video_id, include_timestamps, prov)
    IN  IF r.ok THEN r
        ELSE IF IsInstance(r.exc, "TranscriptsDisabled")
             THEN Raise("Exception", s_disabled \o video_id)
        ELSE IF IsInstance(r.exc, "NoTranscriptFound")
             THEN Raise("Exception", s_not_found \o video_id)
        ELSE IF prov.list = "ok" THEN Ret(<<>>)
        ELSE Raise("Exception", s_error_fetching \o r.val)

_get_video_transcript(video_id, include_timestamps, prov) ==
    LET r == TranscriptTry(video_id, include_timestamps, prov)
    IN  IF r.ok THEN r
        ELSE IF IsInstance(r.exc, "TranscriptsDisabled")
             THEN Raise("Exception", s_disabled \o video_id)
        ELSE IF IsInstance(r.exc, "NoTranscriptFound")
             THEN Raise("Exception", s_not_found \o video_id)
        ELSE Raise("Exception", s_error_fetching \o r.val)

----------------------------------------------------------------------------
(* The transcript providers and arguments _get_video_transcript is applied *)
(* to.                                                                     *)

MaxEntries == 2

VideoIds == {<<"d", "Q">>, <<"x", "-", "9">>}

Languages == {"en", "fi", "de"}

\* start offsets in tenths of a second: 0 s, 59.9 s, 75.9 s, 1 h, 1 h 40 min
StartTenths == {0, 599, 759, 36000, 60004}

EntryTexts == {<<"h", "i">>, <<"[", "1", "]">>}

Entries == [start : StartTenths, text : EntryTexts]

EntrySeqs == UNION {[1..k -> Entries] : k \in 0..MaxEntries}

OtherEntries == <<[start |-> 10, text |-> <<"e", "i">>]>>

\* str(e) of a provider's exception: without and with the video identifier
ProviderMessages(video_id) == {<<"t","i","m","e","d"," ","o","u","t">>, <<"n","o"," ">> \o video_id}

ProviderExceptions == {"Exception", "RequestException", "ValueError"}

\* the track lists: English among them, other languages only, none at all
TrackLists ==
    {[manual |-> <<"en">>, generated |-> <<>>],
     [manual |-> <<"fi">>, generated |-> <<"en">>],
     [manual |-> <<"fi">>, generated |-> <<"de">>],
     [manual |-> <<>>, generated |-> <<"de", "fi">>]}

FirstChoice(t) ==
    IF \E k \in 1..Len(t.manual \o t.generated) : (t.manual \o t.generated)[k] = "en"
    THEN "en" ELSE (t.manual \o t.generated)[1]

WorkingProviders ==
    {[list |-> "ok", manual |-> t.manual, generated |-> t.generated,
      entries |-> [l \in Languages |-> IF l = FirstChoice(t) THEN es ELSE OtherEntries],
      fetch |-> "ok", exc |-> "Exception", msg |-> <<>>, ctor_ok |-> TRUE] :
        t \in TrackLists, es \in EntrySeqs}

AnyProviders(video_id) ==
    {[list |-> l, manual |-> t.manual, generated |-> t.generated,
      entries |-> [g \in Languages |-> OtherEntries],
      fetch |-> f, exc |-> x, msg |-> m, ctor_ok |-> c] :
        l \in {"ok", "disabled", "error"},
        t \in TrackLists \cup {[manual |-> <<>>, generated |-> <<>>]},
        f \in {"ok", "error"}, x \in ProviderExceptions,
        m \in ProviderMessages(video_id), c \in BOOLEAN}

InitTranscript ==
    /\ call \in {Pending("_get_video_transcript",
                         [video_id |-> v, include_timestamps |-> ts, prov |-> p]) :
                     v \in VideoIds, ts \in BOOLEAN,
                     p \in WorkingProviders \cup UNION {AnyProviders(w) : w \in VideoIds}}
    /\ env = EnvAllKeys
    /\ req = ReqIdle

GetVideoTranscript ==
    /\ call.fn = "_get_video_transcript" /\ ~call.done
    /\ call' = Done(call, _get_video_transcript(call.in.video_id,
                                                 call.in.include_timestamps, call.in.prov))
    /\ UNCHANGED <<env, req>>

NextTranscript == GetVideoTranscript

SpecTranscript == InitTranscript /\ [][NextTranscript]_vars

----------------------------------------------------------------------------
(* Claims about _get_video_transcript.                                     *)

TranscriptCall == call.fn = "_get_video_transcript" /\ call.done

Contains(s, sub) == \E i \in 1..(Len(s) + 1) : HasAt(s, i, sub)

\* the provider has no track at all
NoTrackAtAll(prov) == prov.list = "ok" /\ prov.manual = <<>> /\ prov.generated = <<>>

\* some step of the provider fails: listing, finding a track, or fetching
ProviderFails(prov) ==
    \/ prov.list # "ok"
    \/ NoTrackAtAll(prov)
    \/ prov.fetch = "error"

\* the failure is one the code names: transcripts disabled, or no transcript
\* found (raised with its message alone)
NamedFailure(prov) ==
    \/ prov.list = "disabled"
    \/ NoTrackAtAll(prov) /\ prov.ctor_ok

\* C6 as stated: whenever the provider fails, the call raises one failure
\* whose message embeds the video identifier, and returns no text
C6_FailureEmbedsId ==
    (TranscriptCall /\ ProviderFails(call.in.prov)) =>
        /\ ~call.out.ok
        /\ call.out.exc = "Exception"
        /\ Contains(call.out.val, call.in.video_id)

\* C6 as amended: whenever the provider fails the call raises one Exception
\* and returns no text (and it returns text only when nothing fails); the
\* message embeds the video identifier when transcripts are disabled or no
\* transcript is found; for every other error it is "Error fetching
\* transcript: " followed by the text of the underlying error, and embeds the
\* identifier only if that text does
C6_FailureIsOneException ==
    TranscriptCall =>
        LET prov == call.in.prov
            out == call.out
            rest == SubSeq(out.val, Len(s_error_fetching) + 1, Len(out.val))
        IN  /\ out.ok <=> ~ProviderFails(prov)
            /\ ProviderFails(prov) =>
                  /\ out.exc = "Exception"
                  /\ NamedFailure(prov) => Contains(out.val, call.in.video_id)
                  /\ prov.list = "disabled" => out.val = s_disabled \o call.in.video_id
                  /\ ~NamedFailure(prov) =>
                        /\ StartsWith(out.val, s_error_fetching)
                        /\ rest \in {prov.msg, s_missing_arguments}
                        /\ Contains(out.val, call.in.video_id)
                              <=> Contains(rest, call.in.video_id)

\* witness of C6: transcript.fetch failed with an error that does not name
\* the video, and the call raised "Error fetching transcript: timed out"
C6_Witness ==
    /\ TranscriptCall
    /\ call.in.prov.list = "ok" /\ call.in.prov.manual # <<>>
    /\ call.in.prov.fetch = "error"
    /\ call.out = Raise("Exception", s_error_fetching \o <<"t","i","m","e","d"," ","o","u","t">>)

AllDigits(s) == \A k \in 1..Len(s) : s[k] \in Digits

DigitValue(c) == CHOOSE d \in 0..9 : DigitChar(d) = c

\* the number a string of decimal digits denotes
RECURSIVE ToNat(_)
ToNat(s) == IF s = <<>> THEN 0 ELSE 10 * ToNat(SubSeq(s, 1, Len(s) - 1)) + DigitValue(s[Len(s)])

\* the first index from i on where ch stands in s, else 0
RECURSIVE FirstIndex(_, _, _)
FirstIndex(s, i, ch) ==
    IF i > Len(s) THEN 0 ELSE IF s[i] = ch THEN i ELSE FirstIndex(s, i + 1, ch)

\* at pos stands "[MM:SS], <text>" for the entry: MM of two digits or more
\* with no further padding, SS of two digits in 0..59, and MM minutes SS
\* seconds the entry's start offset cut down to whole seconds
TimestampedLineAt(s, pos, entry) ==
    LET c == FirstIndex(s, pos, ":")
        mm == SubSeq(s, pos + 1, c - 1)
        ss == SubSeq(s, c + 1, c + 2)
    IN  /\ pos <= Len(s) /\ s[pos] = "["
        /\ c # 0 /\ c + 5 <= Len(s)
        /\ Len(mm) >= 2 /\ AllDigits(mm) /\ (Len(mm) > 2 => mm[1] # "0")
        /\ AllDigits(ss) /\ ToNat(ss) \in 0..59
        /\ SubSeq(s, c + 3, c + 5) = <<"]", ",", " ">>
        /\ ToNat(mm) * 60 + ToNat(ss) = entry.start \div 10
        /\ ToNat(mm) = entry.start \div 600
        /\ HasAt(s, c + 6, entry.text) \/ entry.text = <<>>

TimestampedLineEnd(s, pos, entry) == FirstIndex(s, pos, ":") + 5 + Len(entry.text)

\* s from pos on is the entries' lines in order, a single newline between two
RECURSIVE TimestampedLinesAt(_, _, _)
TimestampedLinesAt(s, pos, entries) ==
    IF entries = <<>> THEN s = <<>>
    ELSE /\ TimestampedLineAt(s, pos, entries[1])
         /\ LET e == TimestampedLineEnd(s, pos, entries[1])
            IN  IF Len(entries) = 1 THEN e = Len(s)
                ELSE /\ e + 1 <= Len(s) /\ s[e + 1] = "\n"
                     /\ TimestampedLinesAt(s, e + 2, Tail(entries))

\* C7: with include_timestamps the text returned is, entry by entry and in
\* order, "[MM:SS], <text>" with MM = floor(start / 60) and SS = floor(start
\* mod 60) in 0..59, each padded with zeros to two digits and cut down, not
\* rounded (75.9 s gives "[01:15], "), the lines joined by single newlines
C7_TimestampsTruncated ==
    (TranscriptCall /\ call.out.ok /\ call.in.include_timestamps) =>
        LET entries == call.in.prov.entries[FirstChoice(call.in.prov)]
        IN  /\ TimestampedLinesAt(call.out.val, 1, entries)
            /\ (entries # <<>> /\ entries[1].start = 759)
                  => StartsWith(call.out.val, <<"[","0","1",":","1","5","]",","," ">>)

\* witness of C7: two entries, at 75.9 s and at 1 h 40 min, were rendered
C7_Witness ==
    /\ TranscriptCall /\ call.out.ok /\ call.in.include_timestamps
    /\ LET entries == call.in.prov.entries[FirstChoice(call.in.prov)]
       IN  /\ Len(entries) = 2
           /\ entries[1].start = 759 /\ entries[2].start = 60004
    /\ StartsWith(call.out.val, <<"[","0","1",":","1","5","]",","," ">>)
    /\ Contains(call.out.val, <<"\n","[","1","0","0",":","0","0","]">>)

----------------------------------------------------------------------------
(* _get_video_metadata.  Python values carry their type t: a str (s, a      *)
(* sequence of characters), an int (n), a list of str (l), or None.  The    *)
(* metadata provider                                                        *)
(* (yt-dlp) is the record ydl: what extract_info does and the info dict it  *)
(* returns, in which a key may be absent.                                   *)

PyStr(v) == [t |-> "str", s |-> v, n |-> 0, l |-> <<>>]

PyInt(v) == [t |-> "int", s |-> <<>>, n |-> v, l |-> <<>>]

PyList(v) == [t |-> "list", s |-> <<>>, n |-> 0, l |-> v]

None == [t |-> "None", s |-> <<>>, n |-> 0, l |-> <<>>]

\* no such key in a dict
Absent == [t |-> "absent", s |-> <<>>, n |-> 0, l |-> <<>>]

s_unknown == <<"U","n","k","n","o","w","n">>

\* dict.get(key, default)
Get(d, key, default) == IF d[key] = Absent THEN default ELSE d[key]

MetadataFields ==
    {"title", "description", "duration", "upload_date", "uploader",
     "view_count", "like_count", "tags"}

\* mutant: a value the provider gives as None replaced by the default
MetadataDefaultingNone(video_id, ydl) ==
    LET get(key, default) ==
            IF ydl.info[key] = Absent \/ ydl.info[key] = None THEN default ELSE ydl.info[key]
    IN  IF ~ydl.ok THEN Raise(ydl.exc, ydl.msg)
        ELSE Ret([title |-> get("title", PyStr(s_unknown)),
                  description |-> get("description", PyStr(<<>>)),
                  duration |-> get("duration", PyInt(0)),
                  upload_date |-> get("upload_date", PyStr(<<>>)),
                  uploader |-> get("uploader", PyStr(s_unknown)),
                  view_count |-> get("view_count", PyInt(0)),
                  like_count |-> get("like_count", PyInt(0)),
                  tags |-> get("tags", PyList(<<>>))])

_get_video_metadata(video_id, ydl) ==
    IF ~ydl.ok THEN Raise(ydl.exc, ydl.msg)
    ELSE Ret([title |-> Get(ydl.info, "title", PyStr(s_unknown)),
              description |-> Get(ydl.info, "description", PyStr(<<>>)),
              duration |-> Get(ydl.info, "duration", PyInt(0)),
              upload_date |-> Get(ydl.info, "upload_date", PyStr(<<>>)),
              uploader |-> Get(ydl.info, "uploader", PyStr(s_unknown)),
              view_count |-> Get(ydl.info, "view_count", PyInt(0)),
              like_count |-> Get(ydl.info, "like_count", PyInt(0)),
              tags |-> Get(ydl.info, "tags", PyList(<<>>))])

----------------------------------------------------------------------------
(* The metadata providers _get_video_metadata is applied to: every field    *)
(* absent, given, or given as None.                                         *)

Infos ==
    [title : {Absent, None, PyStr(<<"T">>)},
     description : {Absent, None, PyStr(<<"d","e","s","c">>)},
     duration : {Absent, None, PyInt(212)},
     upload_date : {Absent, None, PyStr(<<"2","0","0","9","1","0","2","5">>)},
     uploader : {Absent, None, PyStr(<<"R","A">>)},
     view_count : {Absent, None, PyInt(1234567)},
     like_count : {Absent, None, PyInt(0)},
     tags : {Absent, None, PyList(<<<<"p","o","p">>>>)}]

AllAbsent == [k \in MetadataFields |-> Absent]

MetadataProviders ==
    {[ok |-> TRUE, exc |-> "", msg |-> <<>>, info |-> i] : i \in Infos}
    \cup {[ok |-> FALSE, exc |-> x, msg |-> <<"n","o"," ","v","i","d","e","o">>, info |-> AllAbsent] :
              x \in ProviderExceptions}

InitMetadata ==
    /\ call \in {Pending("_get_video_metadata", [video_id |-> v, ydl |-> y]) :
                     v \in {<<"d", "Q">>}, y \in MetadataProviders}
    /\ env = EnvAllKeys
    /\ req = ReqIdle

GetVideoMetadata ==
    /\ call.fn = "_get_video_metadata" /\ ~call.done
    /\ call' = Done(call, _get_video_metadata(call.in.video_id, call.in.ydl))
    /\ UNCHANGED <<env, req>>

NextMetadata == GetVideoMetadata

SpecMetadata == InitMetadata /\ [][NextMetadata]_vars

----------------------------------------------------------------------------
(* Claims about _get_video_metadata.                                       *)

MetadataCall == call.fn = "_get_video_metadata" /\ call.done /\ call.in.ydl.ok

\* the defaults the specification states
StatedDefault(key) ==
    IF key \in {"title", "description", "upload_date", "uploader"} THEN PyStr(<<>>)
    ELSE IF key \in {"duration", "view_count", "like_count"} THEN PyInt(0)
    ELSE PyList(<<>>)

\* C5 as stated: every field the provider omits holds its stated default (the
\* empty string for title, description, upload_date and uploader, zero for
\* duration, view_count and like_count, the empty list for tags), and every
\* field it gives is relayed unchanged
C5_DefaultsAsStated ==
    MetadataCall =>
        /\ call.out.ok
        /\ \A key \in MetadataFields :
              call.out.val[key] = IF call.in.ydl.info[key] = Absent
                                  THEN StatedDefault(key)
                                  ELSE call.in.ydl.info[key]

\* C5 as amended: an omitted title or uploader holds "Unknown"; an omitted
\* description or upload_date the empty string; an omitted duration,
\* view_count or like_count zero; omitted tags the empty list; and every field
\* the provider gives is relayed unchanged
C5_DefaultsOfCode ==
    MetadataCall =>
        /\ call.out.ok
        /\ DOMAIN call.out.val = MetadataFields
        /\ \A key \in MetadataFields :
              call.out.val[key] =
                  IF call.in.ydl.info[key] # Absent THEN call.in.ydl.info[key]
                  ELSE IF key \in {"title", "uploader"} THEN PyStr(s_unknown)
                  ELSE StatedDefault(key)

\* witness of C5: the provider gave no title and no tags, and None as the
\* description; the record holds "Unknown", the empty list and None
C5_Witness ==
    /\ MetadataCall
    /\ call.in.ydl.info.title = Absent /\ call.in.ydl.info.tags = Absent
    /\ call.in.ydl.info.description = None
    /\ call.out.val.title = PyStr(s_unknown)
    /\ call.out.val.tags = PyList(<<>>)
    /\ call.out.val.description = None

----------------------------------------------------------------------------
(* analyze_youtube_video: the three steps and the display document, inside *)
(* one try block with two handlers.                                        *)

s_invalid_youtube_url == <<"E","r","r","o","r",":"," ","I","n","v","a","l","i","d"," ","Y","o","u","T","u","b","e"," ","U","R","L"," ","-"," ">>

s_error_analyzing == <<"E","r","r","o","r"," ","a","n","a","l","y","z","i","n","g"," ","v","i","d","e","o",":"," ">>

\* str() of the TypeError of f"{None:,}"
s_unsupported_format == <<"u","n","s","u","p","p","o","r","t","e","d"," ","f","o","r","m","a","t"," ","s","t","r","i","n","g"," ","p","a","s","s","e","d"," ","t","o"," ","N","o","n","e","T","y","p","e",".","_","_","f","o","r","m","a","t","_","_">>

\* str() of the TypeError of None[:500]
s_not_subscriptable == <<"'","N","o","n","e","T","y","p","e","'"," ","o","b","j","e","c","t"," ","i","s"," ","n","o","t"," ","s","u","b","s","c","r","i","p","t","a","b","l","e">>

DescriptionLimit == 500

TagsLimit == 10

\* f"{v}" of a str, an int or None
Display(v) ==
    IF v.t = "str" THEN v.s
    ELSE IF v.t = "int" THEN IntToStr(v.n)
    ELSE <<"N","o","n","e">>

\* f"{n:03d}"
Format03d(n) ==
    IF n < 10 THEN <<"0", "0">> \o IntToStr(n)
    ELSE IF n < 100 THEN <<"0">> \o IntToStr(n)
    ELSE IntToStr(n)

\* f"{n:,}" of an integer n >= 0
RECURSIVE FormatThousands(_)
FormatThousands(n) ==
    IF n < 1000 THEN IntToStr(n)
    ELSE FormatThousands(n \div 1000) \o <<",">> \o Format03d(n % 1000)

\* s[:k]
Prefix(s, k) == SubSeq(s, 1, IF Len(s) < k THEN Len(s) ELSE k)

\* the f-string of the response: the text, or the TypeError its first
\* failing replacement field raises
FormatResponse(metadata, transcript) ==
    IF metadata.view_count.t # "int" THEN Raise("TypeError", s_unsupported_format)
    ELSE IF metadata.description.t # "str" THEN Raise("TypeError", s_not_subscriptable)
    ELSE Ret(<<"#"," ","V","i","d","e","o"," ","I","n","f","o","r","m","a","t","i","o","n","\n","T","i","t","l","e",":"," ">> \o Display(metadata.title)
             \o <<"\n","U","p","l","o","a","d","e","r",":"," ">> \o Display(metadata.uploader)
             \o <<"\n","D","u","r","a","t","i","o","n",":"," ">> \o Display(metadata.duration) \o <<" ","s","e","c","o","n","d","s">>
             \o <<"\n","V","i","e","w","s",":"," ">> \o FormatThousands(metadata.view_count.n)
             \o <<"\n","U","p","l","o","a","d"," ","D","a","t","e",":"," ">> \o Display(metadata.upload_date)
             \o <<"\n","\n","#","#"," ","D","e","s","c","r","i","p","t","i","o","n","\n">>
             \o Prefix(metadata.description.s, DescriptionLimit)
             \o (IF Len(metadata.description.s) > DescriptionLimit THEN <<".",".",".">> ELSE <<>>)
             \o <<"\n","\n","#","#"," ","T","a","g","s","\n">>
             \o (IF metadata.tags.t = "list" /\ metadata.tags.l # <<>>
                 THEN Join(Prefix(metadata.tags.l, TagsLimit), <<","," ">>)
                 ELSE <<"N","o","n","e">>)
             \o <<"\n","\n","#","#"," ","F","u","l","l"," ","T","r","a","n","s","c","r","i","p","t","\n">> \o transcript \o <<"\n">>)

\* the body of the try block
AnalyzeTry(url, ydl, prov) ==
    LET video_id == _extract_video_id(url)
        metadata == _get_video_metadata(video_id.val, ydl)
        transcript == _get_video_transcript(video_id.val, TRUE, prov)
    IN  IF ~video_id.ok THEN video_id
        ELSE IF ~metadata.ok THEN metadata
        ELSE IF ~transcript.ok THEN transcript
        ELSE FormatResponse(metadata.val, transcript.val)

analyze_youtube_video(url, ydl, prov) ==
    LET r == AnalyzeTry(url, ydl, prov)
    IN  IF r.ok THEN r
        ELSE IF IsInstance(r.exc, "ValueError") THEN Ret(s_invalid_youtube_url \o r.val)
        ELSE Ret(s_error_analyzing \o r.val)

----------------------------------------------------------------------------
(* fetch_web_page.  A page's text may be longer than 20,000 characters, so  *)
(* it is a sequence of runs [c, n]: the character c repeated n >= 1 times.  *)

Run(c, n) == [c |-> c, n |-> n]

\* a string of the model as a text: one run per character
Text(s) == [k \in 1..Len(s) |-> Run(s[k], 1)]

\* len(text)
RECURSIVE TextLen(_)
TextLen(t) == IF t = <<>> THEN 0 ELSE t[1].n + TextLen(Tail(t))

\* the same text with no two neighbouring runs of the same character
RECURSIVE Merged(_)
Merged(t) ==
    IF Len(t) < 2 THEN t
    ELSE IF t[1].c = t[2].c
         THEN Merged(<<Run(t[1].c, t[1].n + t[2].n)>> \o SubSeq(t, 3, Len(t)))
         ELSE <<t[1]>> \o Merged(Tail(t))

\* text[:k]
RECURSIVE TextPrefix(_, _)
TextPrefix(t, k) ==
    IF t = <<>> \/ k <= 0 THEN <<>>
    ELSE IF t[1].n >= k THEN <<Run(t[1].c, k)>>
    ELSE <<t[1]>> \o TextPrefix(Tail(t), k - t[1].n)

\* text[:k] for a small k, as a string of the model
RECURSIVE FirstChars(_, _)
FirstChars(t, k) ==
    IF t = <<>> \/ k <= 0 THEN <<>>
    ELSE IF t[1].n = 1 THEN <<t[1].c>> \o FirstChars(Tail(t), k - 1)
    ELSE <<t[1].c>> \o FirstChars(<<Run(t[1].c, t[1].n - 1)>> \o Tail(t), k - 1)

\* text[-k:] for a small k, as a string of the model
RECURSIVE LastChars(_, _)
LastChars(t, k) ==
    IF t = <<>> \/ k <= 0 THEN <<>>
    ELSE LET m == Len(t)
             front == SubSeq(t, 1, m - 1)
         IN  IF t[m].n = 1 THEN LastChars(front, k - 1) \o <<t[m].c>>
             ELSE LastChars(front \o <<Run(t[m].c, t[m].n - 1)>>, k - 1) \o <<t[m].c>>

TextStartsWith(t, p) == FirstChars(t, Len(p)) = p

TextEndsWith(t, p) == LastChars(t, Len(p)) = p

\* the characters \s matches and str.strip() removes
Whitespace == {" ", "\t", "\n", "\r"}

\* how many runs of whitespace t starts with
RECURSIVE LeadingWhitespaceRuns(_)
LeadingWhitespaceRuns(t) ==
    IF t = <<>> \/ t[1].c \notin Whitespace THEN 0 ELSE 1 + LeadingWhitespaceRuns(Tail(t))

\* re.sub(r'\n\s*\n', '\n\n', text): in every stretch of whitespace that holds
\* two newlines or more, what lies from its first newline to its last newline
\* becomes two newlines (the match starts at the leftmost newline and \s*,
\* greedy, gives back to the last one)
RECURSIVE CollapseBlankLines(_)
CollapseBlankLines(t) ==
    IF t = <<>> THEN <<>>
    ELSE IF t[1].c \notin Whitespace THEN <<t[1]>> \o CollapseBlankLines(Tail(t))
    ELSE LET m == LeadingWhitespaceRuns(t)
             newlines == {k \in 1..m : t[k].c = "\n"}
             a == CHOOSE k \in newlines : \A j \in newlines : k <= j
             b == CHOOSE k \in newlines : \A j \in newlines : k >= j
             rest == CollapseBlankLines(SubSeq(t, m + 1, Len(t)))
         IN  IF newlines = {} \/ (a = b /\ t[a].n = 1)
             THEN SubSeq(t, 1, m) \o rest
             ELSE SubSeq(t, 1, a - 1) \o <<Run("\n", 2)>> \o SubSeq(t, b + 1, m) \o rest

\* text.strip()
RECURSIVE StripLeft(_)
StripLeft(t) == IF t = <<>> \/ t[1].c \notin Whitespace THEN t ELSE StripLeft(Tail(t))

RECURSIVE StripRight(_)
StripRight(t) ==
    IF t = <<>> \/ t[Len(t)].c \notin Whitespace THEN t ELSE StripRight(SubSeq(t, 1, Len(t) - 1))

Strip(t) == StripRight(StripLeft(t))

\* lines 213-214: the cleaned text
Cleaned(t) == Strip(CollapseBlankLines(t))

MaxPageChars == 20000

s_truncated == <<"\n","\n","[","C","o","n","t","e","n","t"," ","t","r","u","n","c","a","t","e","d",".",".",".","]">>

\* mutant: the limit the comment names, the first 10000 characters
TruncatedAtComment(t) ==
    IF TextLen(t) > 10000 THEN TextPrefix(t, 10000) \o Text(s_truncated) ELSE t

\* lines 217-218
Truncated(t) ==
    IF TextLen(t) > MaxPageChars THEN TextPrefix(t, MaxPageChars) \o Text(s_truncated) ELSE t

\* urllib.parse.urlparse: the scheme (the characters before the first ":" when
\* they start with a letter and are all scheme characters) and what follows it
SchemeChars == Letters \cup Digits \cup {"+", "-", "."}

SchemeEnd(url) ==
    LET i == FirstIndex(url, 1, ":")
    IN  IF i > 1 /\ url[1] \in Letters /\ (\A k \in 1..(i - 1) : url[k] \in SchemeChars)
        THEN i ELSE 0

UrlScheme(url) == SubSeq(url, 1, SchemeEnd(url) - 1)

\* the network location: after "//", up to the first of "/", "?" and "#"
UrlNetloc(url) ==
    LET rest == SubSeq(url, SchemeEnd(url) + 1, Len(url))
    IN  IF Len(rest) >= 2 /\ rest[1] = "/" /\ rest[2] = "/"
        THEN SubSeq(rest, 3, RunEnd(rest, 3, {"/", "?", "#"}))
        ELSE <<>>

s_invalid_ipv6 == <<"I","n","v","a","l","i","d"," ","I","P","v","6"," ","U","R","L">>

\* urlparse raises ValueError for a bracket without its partner in the netloc
urlparse(url) ==
    LET netloc == UrlNetloc(url)
        open == \E k \in 1..Len(netloc) : netloc[k] = "["
        close == \E k \in 1..Len(netloc) : netloc[k] = "]"
    IN  IF open # close THEN Raise("ValueError", s_invalid_ipv6)
        ELSE Ret([scheme |-> UrlScheme(url), netloc |-> netloc])

s_invalid_url == <<"I","n","v","a","l","i","d"," ","U","R","L",":"," ">>

s_error_fetching_page == <<"E","r","r","o","r"," ","f","e","t","c","h","i","n","g"," ","w","e","b"," ","p","a","g","e",":"," ">>

s_error_parsing_page == <<"E","r","r","o","r"," ","p","a","r","s","i","n","g"," ","w","e","b"," ","p","a","g","e",":"," ">>

s_http_error == <<" ","E","r","r","o","r"," ","f","o","r"," ","u","r","l">>

\* response.raise_for_status()
RaisesForStatus(status) == status >= 400 /\ status < 600

\* the body of the try block.  web is the site and the HTML libraries: what
\* requests.get does, the status, whether parsing and conversion succeed and
\* the text html2text makes of the page
FetchTry(url, web) ==
    LET parsed == urlparse(url)
    IN  IF ~parsed.ok THEN Raise(parsed.exc, Text(parsed.val))
        ELSE IF parsed.val.scheme = <<>> \/ parsed.val.netloc = <<>>
             THEN Ret(Text(s_invalid_url \o url))
        ELSE IF web.get = "error" THEN Raise("RequestException", Text(web.msg))
        ELSE IF RaisesForStatus(web.status)
             THEN Raise("RequestException", Text(IntToStr(web.status) \o s_http_error))
        ELSE IF web.parse = "error" THEN Raise(web.exc, Text(web.msg))
        ELSE Ret(Truncated(Cleaned(web.text)))

\* the HTTP requests the call issues: one, unless the URL is rejected first
FetchRequests(url, web) ==
    LET parsed == urlparse(url)
    IN  IF parsed.ok /\ parsed.val.scheme # <<>> /\ parsed.val.netloc # <<>>
        THEN {"web"} ELSE {}

fetch_web_page(url, web) ==
    LET r == FetchTry(url, web)
    IN  IF r.ok THEN r
        ELSE IF IsInstance(r.exc, "RequestException")
             THEN Ret(Text(s_error_fetching_page) \o r.val)
        ELSE Ret(Text(s_error_parsing_page) \o r.val)

----------------------------------------------------------------------------
(* better_web_search: one POST to the search provider and the JSON of the   *)
(* response, with no handler around either.                                 *)

s_not_json == <<"E","x","p","e","c","t","i","n","g"," ","v","a","l","u","e">>

\* serper is the search provider: what requests.post does, and whether the
\* body of the response is JSON (as it is for results and for the provider's
\* error replies) 
better_web_search(query, serper) ==
    IF serper.post = "error" THEN Raise("RequestException", serper.msg)
    ELSE IF ~serper.json THEN Raise("JSONDecodeError", s_not_json)
    ELSE Ret([status |-> serper.status, organic |-> serper.organic])

----------------------------------------------------------------------------
(* The calls of the three tools: arguments, providers and sites.            *)

PageSlack == 2

AnalyzeUrls == {<<"h","t","t","p","s",":","/","/","y","o","u","t","u",".","b","e","/","d","Q">>, <<"h","t","t","p","s",":","/","/","e","x","a","m","p","l","e",".","c","o","m","/">>, <<"y","o","u","t","u",".","b","e","/","d","#","t">>}

GivenInfo ==
    [title |-> PyStr(<<"T">>), description |-> PyStr(<<"d","e","s","c">>), duration |-> PyInt(212),
     upload_date |-> PyStr(<<"2","0","0","9","1","0","2","5">>), uploader |-> PyStr(<<"R","A">>),
     view_count |-> PyInt(1234567), like_count |-> PyInt(0),
     tags |-> PyList(<<<<"p","o","p">>, <<"8","0","s">>>>)]

\* a description of 501 characters and 11 tags
LongInfo ==
    [GivenInfo EXCEPT !.description = PyStr([k \in 1..(DescriptionLimit + 1) |-> "d"]),
                      !.tags = PyList([k \in 1..(TagsLimit + 1) |-> <<"t", DigitChar(k % 10)>>])]

AnalyzeInfos ==
    {GivenInfo, LongInfo, AllAbsent,
     [GivenInfo EXCEPT !.view_count = None],
     [GivenInfo EXCEPT !.description = None]}

AnalyzeYdls ==
    {[ok |-> TRUE, exc |-> "", msg |-> <<>>, info |-> i] : i \in AnalyzeInfos}
    \cup {[ok |-> FALSE, exc |-> x, msg |-> <<"n","o"," ","v","i","d","e","o">>, info |-> AllAbsent] :
              x \in ProviderExceptions}

TwoEntries == <<[start |-> 759, text |-> <<"h","i">>], [start |-> 60004, text |-> <<"[","1","]">>]>>

AnalyzeProvs ==
    {[list |-> l, manual |-> m, generated |-> <<>>,
      entries |-> [g \in Languages |-> TwoEntries],
      fetch |-> f, exc |-> "RequestException", msg |-> <<"t","i","m","e","d"," ","o","u","t">>, ctor_ok |-> FALSE] :
        l \in {"ok", "disabled", "error"}, m \in {<<"en">>, <<>>}, f \in {"ok", "error"}}

FetchUrls ==
    {<<"h","t","t","p","s",":","/","/","e","x","a","m","p","l","e",".","c","o","m","/","a">>, <<"e","x","a","m","p","l","e",".","c","o","m">>, <<"h","t","t","p","s",":","/","/","/","a">>, <<"m","a","i","l","t","o",":","x">>,
     <<"/","a","?","b">>, <<"h","t","t","p",":","/","/","[",":",":","1","/","a">>, <<>>}

PageFills ==
    {0}
    \cup ((MaxPageChars - Len(s_truncated) - PageSlack)..(MaxPageChars - Len(s_truncated) + PageSlack))
    \cup ((MaxPageChars - PageSlack)..(MaxPageChars + PageSlack))

PageTexts ==
    {pre \o (IF n = 0 THEN <<>> ELSE <<Run("x", n)>>) \o tail \o post :
        pre \in {<<>>, <<Run(" ", 2)>>, <<Run("\n", 1)>>},
        n \in PageFills,
        tail \in {<<>>, Text(s_truncated),
                  <<Run("\n", 3)>> \o Text(<<"[","C","o","n","t","e","n","t"," ","t","r","u","n","c","a","t","e","d",".",".",".","]">>),
                  <<Run("\n", 2), Run(" ", 1), Run("\n", 1), Run("y", 3)>>},
        post \in {<<>>, <<Run("\n", 1)>>}}

WorkingWebs ==
    {[get |-> "ok", status |-> 200, parse |-> "ok", exc |-> "", msg |-> <<>>, text |-> t] :
        t \in PageTexts}

FailingWebs ==
    {[get |-> g, status |-> st, parse |-> p, exc |-> x, msg |-> <<"t","i","m","e","d"," ","o","u","t">>,
      text |-> Text(<<"h","i">>)] :
        g \in {"ok", "error"}, st \in {200, 404, 503}, p \in {"ok", "error"},
        x \in {"Exception", "ValueError"}}

Serpers ==
    {[post |-> p, status |-> st, json |-> j, msg |-> <<"t","i","m","e","d"," ","o","u","t">>, organic |-> <<>>] :
        p \in {"ok", "error"}, st \in {200, 403, 500}, j \in BOOLEAN}

InitTools ==
    /\ call \in
          {Pending("analyze_youtube_video", [url |-> u, ydl |-> y, prov |-> p]) :
              u \in AnalyzeUrls, y \in AnalyzeYdls, p \in AnalyzeProvs}
          \cup {Pending("fetch_web_page", [url |-> u, web |-> w]) :
                  u \in {<<"h","t","t","p","s",":","/","/","e","x","a","m","p","l","e",".","c","o","m","/","a">>}, w \in WorkingWebs}
          \cup {Pending("fetch_web_page", [url |-> u, web |-> w]) :
                  u \in FetchUrls, w \in FailingWebs}
          \cup {Pending("better_web_search", [query |-> <<"q">>, serper |-> sp]) :
                  sp \in Serpers}
    /\ env \in [openrouter_key : {TRUE}, serper_key : BOOLEAN]
    /\ req = ReqIdle

AnalyzeYoutubeVideo ==
    /\ call.fn = "analyze_youtube_video" /\ ~call.done
    /\ call' = DoneNet(call, analyze_youtube_video(call.in.url, call.in.ydl, call.in.prov),
                       IF _extract_video_id(call.in.url).ok THEN {"youtube"} ELSE {})
    /\ UNCHANGED <<env, req>>

FetchWebPage ==
    /\ call.fn = "fetch_web_page" /\ ~call.done
    /\ call' = DoneNet(call, fetch_web_page(call.in.url, call.in.web),
                       FetchRequests(call.in.url, call.in.web))
    /\ UNCHANGED <<env, req>>

BetterWebSearch ==
    /\ call.fn = "better_web_search" /\ ~call.done
    /\ call' = DoneNet(call, better_web_search(call.in.query, call.in.serper), {"serper"})
    /\ UNCHANGED <<env, req>>

NextTools == AnalyzeYoutubeVideo \/ FetchWebPage \/ BetterWebSearch

SpecTools == InitTools /\ [][NextTools]_vars

----------------------------------------------------------------------------
(* Claims about the tools.                                                 *)

AnalyzeCall == call.fn = "analyze_youtube_video" /\ call.done

FetchCall == call.fn = "fetch_web_page" /\ call.done

SearchCall == call.fn = "better_web_search" /\ call.done

\* no accepted shape stands in the URL: video-ID extraction fails
IdExtractionFails(url) == ~HasFirstShape(url) /\ ~HasFallbackShape(url)

\* the display document cannot be built: a number to be grouped by thousands
\* or a text to be cut is None
DisplayFails(ydl) == ydl.ok /\ (ydl.info.view_count = None \/ ydl.info.description = None)

\* the URL has no scheme or no host
MissingSchemeOrHost(url) == UrlScheme(url) = <<>> \/ UrlNetloc(url) = <<>>

\* the request fails or the status is an error status
HttpFails(web) == web.get = "error" \/ web.status \notin 200..399

\* C1 as stated: both tools always return text; analyze_youtube_video starts
\* it with "Error: Invalid YouTube URL - " when video-ID extraction fails and
\* with "Error analyzing video: " when the metadata fetch, the transcript
\* fetch or the building of the display document fails; fetch_web_page
\* returns "Invalid URL: <url>" with no HTTP request for a URL with no scheme
\* or no host, starts the text with "Error fetching web page: " for an HTTP or
\* request failure and with "Error parsing web page: " for any other failure
C1_ToolsReturnText ==
    /\ AnalyzeCall =>
          /\ call.out.ok
          /\ IdExtractionFails(call.in.url)
                => StartsWith(call.out.val, s_invalid_youtube_url)
          /\ ( /\ ~IdExtractionFails(call.in.url)
               /\ (~call.in.ydl.ok \/ ProviderFails(call.in.prov) \/ DisplayFails(call.in.ydl)) )
                => StartsWith(call.out.val, s_error_analyzing)
    /\ FetchCall =>
          /\ call.out.ok
          /\ (urlparse(call.in.url).ok /\ MissingSchemeOrHost(call.in.url))
                => (call.out.val = Text(s_invalid_url \o call.in.url) /\ call.net = {})
          /\ (urlparse(call.in.url).ok /\ ~MissingSchemeOrHost(call.in.url)
                /\ HttpFails(call.in.web))
                => TextStartsWith(call.out.val, s_error_fetching_page)
          /\ (~urlparse(call.in.url).ok
                \/ (~MissingSchemeOrHost(call.in.url) /\ ~HttpFails(call.in.web)
                      /\ call.in.web.parse = "error"))
                => TextStartsWith(call.out.val, s_error_parsing_page)

\* the page was fetched and converted: the call reached its truncation step
PageProcessed ==
    /\ FetchCall
    /\ urlparse(call.in.url).ok /\ ~MissingSchemeOrHost(call.in.url)
    /\ ~HttpFails(call.in.web) /\ call.in.web.parse = "ok"

C10_SearchReturnsText ==
    SearchCall =>
        /\ call.out.ok
        /\ (call.in.serper.post = "error" \/ call.in.serper.status >= 400
              \/ ~call.in.serper.json)
              => DOMAIN call.out.val = 1..Len(call.out.val)

----------------------------------------------------------------------------
(* config.py and agent.py: the model is built from OPENROUTER_API_KEY when  *)
(* a request asks for an agent.  get_serper_api_key is called by nothing:   *)
(* better_web_search reads SERPER_API_KEY itself and sends what it finds.   *)

s_key_not_found == <<"O","P","E","N","R","O","U","T","E","R","_","A","P","I","_","K","E","Y"," ","n","o","t"," ","f","o","u","n","d"," ","i","n"," ","e","n","v","i","r","o","n","m","e","n","t"," ","v","a","r","i","a","b","l","e","s","."," ","P","l","e","a","s","e"," ","s","e","t"," ","i","t"," ","i","n"," ",".","e","n","v"," ","f","i","l","e"," ","o","r"," ","e","n","v","i","r","o","n","m","e","n","t",".">>

\* a model built without looking at the key
GetModelUnchecked(e) == Ret("LiteLLMModel")

get_model(e) ==
    IF ~e.openrouter_key THEN Raise("ValueError", s_key_not_found)
    ELSE Ret("LiteLLMModel")

MaxSteps == 15

create_fact_checker_agent(e) ==
    LET model == get_model(e)
    IN  IF ~model.ok THEN model
        ELSE Ret([model |-> model.val, max_steps |-> MaxSteps])

\* the tools the agent's generated code can call (besides final_answer)
AgentTools == {"python_interpreter", "analyze_youtube_video", "fetch_web_page", "better_web_search"}

\* the service a tool sends requests to
ToolService(tool) ==
    CASE tool = "analyze_youtube_video" -> {"youtube"}
      [] tool = "fetch_web_page"        -> {"web"}
      [] tool = "better_web_search"     -> {"serper"}
      [] OTHER                          -> {}

----------------------------------------------------------------------------
(* app.py: process_url.                                                     *)

s_please_enter == <<"P","l","e","a","s","e"," ","e","n","t","e","r"," ","a"," ","U","R","L"," ","t","o"," ","a","n","a","l","y","z","e",".">>
s_error_processing == <<"E","r","r","o","r"," ","p","r","o","c","e","s","s","i","n","g"," ","U","R","L",":"," ">>
s_please_check == <<"\n","\n","P","l","e","a","s","e"," ","c","h","e","c","k"," ","t","h","a","t",":","\n","1","."," ","T","h","e"," ","U","R","L"," ","i","s"," ","v","a","l","i","d","\n","2","."," ","E","n","v","i","r","o","n","m","e","n","t"," ","v","a","r","i","a","b","l","e","s"," ","a","r","e"," ","s","e","t"," ","(","O","P","E","N","R","O","U","T","E","R","_","A","P","I","_","K","E","Y",","," ","S","E","R","P","E","R","_","A","P","I","_","K","E","Y",")">>
s_note == <<"\n","\n","[","N","o","t","e",":"," ","C","o","u","l","d"," ","n","o","t"," ","g","e","n","e","r","a","t","e"," ","d","o","w","n","l","o","a","d"," ","f","i","l","e",":"," ">>
s_cannot_concatenate == <<"u","n","s","u","p","p","o","r","t","e","d"," ","o","p","e","r","a","n","d"," ","t","y","p","e","(","s",")"," ","f","o","r"," ","+","=",":"," ","'","i","n","t","'"," ","a","n","d"," ","'","s","t","r","'">>
s_cannot_write == <<"[","E","r","r","n","o"," ","2","8","]"," ","N","o"," ","s","p","a","c","e"," ","l","e","f","t"," ","o","n"," ","d","e","v","i","c","e">>

\* str.strip() of a string
str_strip(s) ==
    LET kept == {k \in 1..Len(s) : s[k] \notin Whitespace}
    IN  IF kept = {} THEN <<>>
        ELSE SubSeq(s, CHOOSE k \in kept : \A j \in kept : k <= j,
                       CHOOSE k \in kept : \A j \in kept : k >= j)

\* not url
IsBlankUrlUnstripped(url) == url = None \/ url.s = <<>>

\* not url or not url.strip()
IsBlankUrl(url) == url = None \/ url.s = <<>> \/ str_strip(url.s) = <<>>

is_youtube_url(url) == Contains(url, <<"y","o","u","t","u","b","e",".","c","o","m">>) \/ Contains(url, <<"y","o","u","t","u",".","b","e">>)

\* the body of the inner try: the text is extracted again and written to a
\* file of the temporary directory; fs is what open/write does, now the clock
DownloadTry(url, include_timestamps, prov, web, fs, now) ==
    IF is_youtube_url(url)
    THEN LET video_id == _extract_video_id(url)
             transcript_text == _get_video_transcript(video_id.val, include_timestamps, prov)
         IN  IF ~video_id.ok THEN video_id
             ELSE IF ~transcript_text.ok THEN transcript_text
             ELSE IF fs = "error" THEN Raise("OSError", s_cannot_write)
             ELSE Ret(<<"/","t","m","p","/","t","r","a","n","s","c","r","i","p","t","_">> \o video_id.val \o <<".","t","x","t">>)
    ELSE IF fs = "error" THEN Raise("OSError", s_cannot_write)
    ELSE Ret(<<"/","t","m","p","/","w","e","b","p","a","g","e","_">> \o now \o <<".","t","x","t">>)

\* the requests of the download step
DownloadRequests(url, web) ==
    IF is_youtube_url(url)
    THEN (IF _extract_video_id(url).ok THEN {"youtube"} ELSE {})
    ELSE FetchRequests(url, web)

\* the outer handler
ErrorReturn(r, msg) ==
    [r EXCEPT !.pc = "returned",
              !.result = PyStr(s_error_processing \o msg \o s_please_check),
              !.file = None]

\* the end of process_url after the download step returned or raised d
AfterDownload(r, d) ==
    IF d.ok THEN [r EXCEPT !.pc = "returned", !.file = PyStr(d.val), !.written = @ \cup {d.val}]
    ELSE IF r.result.t = "str"
         THEN [r EXCEPT !.pc = "returned", !.file = None,
                        !.result = PyStr(@.s \o s_note \o d.val \o <<"]">>)]
    ELSE ErrorReturn(r, s_cannot_concatenate)

----------------------------------------------------------------------------
(* The program: it is launched, then serves one request after the other.    *)

AppUrls ==
    {None, PyStr(<<>>), PyStr(<<" ","\n">>), PyStr(<<" ","h","t","t","p","s",":","/","/","y","o","u","t","u",".","b","e","/","d","Q"," ">>),
     PyStr(<<"h","t","t","p","s",":","/","/","y","o","u","t","u","b","e",".","c","o","m","/","p","l","a","y","l","i","s","t">>), PyStr(<<"h","t","t","p","s",":","/","/","e","x","a","m","p","l","e",".","c","o","m","/","a">>),
     PyStr(<<"e","x","a","m","p","l","e",".","c","o","m">>)}

AgentAnswers == {PyStr(<<"#","#"," ","S","u","m","m","a","r","y","\n","-"," ","a">>), PyInt(42)}

AgentErrors == {<<"A","u","t","h","e","n","t","i","c","a","t","i","o","n","E","r","r","o","r",":"," ","4","0","1">>, <<"T","i","m","e","o","u","t">>}

DownloadProvs == {p \in AnalyzeProvs : p.list = "ok" \/ (p.manual # <<>> /\ p.fetch = "ok")}

DownloadWebs == {w \in FailingWebs : w.status = 200 /\ w.exc = "Exception"}

ReqStart ==
    [pc |-> "start", url |-> None, enable_fact_check |-> FALSE, enable_download |-> FALSE,
     include_timestamps |-> FALSE, steps |-> 0, result |-> None, file |-> None,
     entered |-> {}, net |-> {}, model |-> FALSE, written |-> {}]

InitApp ==
    /\ call = Pending("__main__", <<>>)
    /\ env \in [openrouter_key : BOOLEAN, serper_key : BOOLEAN]
    /\ req = ReqStart

\* the module is loaded, the interface built and served; no key is read
Launch ==
    /\ req.pc = "start"
    /\ req' = [req EXCEPT !.pc = "idle"]
    /\ UNCHANGED <<call, env>>

\* a click or Enter: process_url up to its first return or to run_fact_checker
ProcessUrl ==
    /\ req.pc = "idle"
    /\ \E url \in AppUrls, fc \in BOOLEAN, dl \in BOOLEAN, ts \in BOOLEAN :
          LET r == [req EXCEPT !.url = url, !.enable_fact_check = fc, !.enable_download = dl,
                               !.include_timestamps = ts, !.entered = {"process_url"}]
          IN  req' = IF IsBlankUrl(url)
                     THEN [r EXCEPT !.pc = "returned", !.result = PyStr(s_please_enter), !.file = None]
                     ELSE [r EXCEPT !.pc = "run_fact_checker"]
    /\ UNCHANGED <<call, env>>

\* run_fact_checker up to agent.run: the agent is created, or get_model raises
RunFactChecker ==
    /\ req.pc = "run_fact_checker"
    /\ LET agent == create_fact_checker_agent(env)
           r == [req EXCEPT !.entered = @ \cup {"run_fact_checker", "create_fact_checker_agent", "get_model"}]
       IN  req' = IF agent.ok
                  THEN [r EXCEPT !.pc = "agent.run", !.model = TRUE]
                  ELSE ErrorReturn(r, agent.val)
    /\ UNCHANGED <<call, env>>

\* one step of agent.run: the model writes code, the code calls a tool
AgentStep ==
    /\ req.pc = "agent.run" /\ req.steps < MaxSteps
    /\ \E tool \in AgentTools :
          req' = [req EXCEPT !.steps = @ + 1, !.entered = @ \cup {"agent.run", tool},
                             !.net = @ \cup {"openrouter"} \cup ToolService(tool)]
    /\ UNCHANGED <<call, env>>

\* agent.run returns the final answer and the agent is dropped; without
\* download process_url returns
AgentAnswer ==
    /\ req.pc = "agent.run"
    /\ \E answer \in AgentAnswers :
          req' = [req EXCEPT !.pc = IF req.enable_download THEN "download" ELSE "returned",
                             !.result = answer, !.file = None, !.steps = 0,
                             !.entered = @ \cup {"agent.run"}, !.net = @ \cup {"openrouter"}]
    /\ UNCHANGED <<call, env>>

\* agent.run raises
AgentFails ==
    /\ req.pc = "agent.run"
    /\ \E msg \in AgentErrors :
          req' = ErrorReturn([req EXCEPT !.entered = @ \cup {"agent.run"}, !.steps = 0,
                                         !.net = @ \cup {"openrouter"}], msg)
    /\ UNCHANGED <<call, env>>

\* the download step and the return of process_url
Download ==
    /\ req.pc = "download"
    /\ \E prov \in DownloadProvs, web \in DownloadWebs, fs \in {"ok", "error"}, now \in {<<"2","0","2","6","1","1","0","4","_","1","2","0","0","0","0">>} :
          LET url == str_strip(req.url.s)
              d == DownloadTry(url, req.include_timestamps, prov, web, fs, now)
          IN  req' = AfterDownload([req EXCEPT !.entered = @ \cup {"download"},
                                               !.net = @ \cup DownloadRequests(url, web)], d)
    /\ UNCHANGED <<call, env>>

\* the outputs are shown and the next request can come
Respond ==
    /\ req.pc = "returned"
    /\ req' = [ReqStart EXCEPT !.pc = "idle"]
    /\ UNCHANGED <<call, env>>

NextApp ==
    \/ Launch
    \/ ProcessUrl
    \/ RunFactChecker
    \/ AgentStep
    \/ AgentAnswer
    \/ AgentFails
    \/ Download
    \/ Respond

SpecApp == InitApp /\ [][NextApp]_vars

----------------------------------------------------------------------------
(* Claims about process_url and the API keys.                              *)

\* a request is being served or has just been answered
InRequest == req.pc \notin {"start", "idle"}

WhitespaceOnly(url) == url.t = "str" /\ \A k \in 1..Len(url.s) : url.s[k] \in Whitespace

Extractors == {"analyze_youtube_video", "fetch_web_page", "better_web_search", "download"}

\* C8: whenever process_url was called with an empty or whitespace-only URL,
\* whatever the three flags, it has returned "Please enter a URL to analyze."
\* and no file, and nothing but process_url was entered: no agent created or
\* run, no model constructed, no extractor invoked, no request sent, no file
\* written.
C8_BlankUrlReturnsAtOnce ==
    (InRequest /\ (req.url = None \/ WhitespaceOnly(req.url)))
        => /\ req.pc = "returned"
           /\ req.result = PyStr(s_please_enter)
           /\ req.file = None
           /\ req.entered = {"process_url"}
           /\ ~req.model
           /\ req.net = {}
           /\ req.written = {}
           /\ req.steps = 0

C8_Witness ==
    /\ req.pc = "returned"
    /\ req.url = PyStr(<<" ", "\n">>)
    /\ req.enable_fact_check /\ req.enable_download /\ req.include_timestamps
    /\ req.result = PyStr(s_please_enter)
    /\ req.file = None

\* C9 (as stated): with OPENROUTER_API_KEY or SERPER_API_KEY missing the
\* program never comes to accept a request, so process_url, run_fact_checker
\* and better_web_search are never entered.
C9_KeysCheckedAtStartup ==
    (~env.openrouter_key \/ ~env.serper_key)
        => /\ req.pc = "start"
           /\ req.entered \cap {"process_url", "run_fact_checker", "better_web_search"} = {}

\* C9 (as the code has it): a missing key is no startup failure.  With
\* OPENROUTER_API_KEY missing every request with a non-blank URL fails at run
\* time: run_fact_checker is entered, get_model raises before a model is
\* constructed, the agent is never run, no tool is called and no request is
\* sent, and process_url returns "Error processing URL: OPENROUTER_API_KEY
\* not found ..." and no file.  That message is returned for no other reason:
\* SERPER_API_KEY is never checked, and better_web_search sends its request
\* whether or not the key is set.
C9_MissingKeyFailsPerRequest ==
    /\ (~env.openrouter_key /\ InRequest)
          => /\ ~req.model
             /\ req.entered \cap ({"agent.run"} \cup Extractors \cup AgentTools) = {}
             /\ req.net = {}
             /\ req.written = {}
             /\ (req.pc = "returned" /\ ~IsBlankUrl(req.url))
                   => /\ "run_fact_checker" \in req.entered
                      /\ req.result = PyStr(s_error_processing \o s_key_not_found \o s_please_check)
                      /\ req.file = None
    /\ (req.result.t = "str" /\ Contains(req.result.s, s_key_not_found)) => ~env.openrouter_key
    /\ "better_web_search" \in req.entered => "serper" \in req.net
    /\ "get_serper_api_key" \notin req.entered

C9_Witness ==
    /\ ~env.openrouter_key
    /\ req.pc = "returned"
    /\ "run_fact_checker" \in req.entered
    /\ req.result = PyStr(s_error_processing \o s_key_not_found \o s_please_check)
    /\ req.file = None

\* a search is made although SERPER_API_KEY is not set
SearchWithoutKey ==
    ~env.serper_key /\ "better_web_search" \in req.entered /\ "serper" \in req.net

----------------------------------------------------------------------------
(* Claims about the download step of process_url.                          *)

\* the download step acts in this step
DownloadActs == "download" \notin req.entered /\ "download" \in req'.entered

\* the text of the agent's analysis, as held when the download step starts
AnalysisText == IF req.result.t = "str" THEN req.result.s ELSE IntToStr(req.result.n)

\* C11: in every step of a request with a non-empty URL, the download step
\* acts only once agent.run has returned an answer and only when
\* enable_download is true; when it fails, process_url returns the agent's
\* analysis followed by "[Note: Could not generate download file: ...]" and
\* no file; a file path is returned only when enable_download is true and
\* that file was written; and when agent.run raises, process_url returns
\* "Error processing URL: ..." with no file and no download attempt.
C11_DownloadKeepsAnalysis ==
    [][ /\ DownloadActs
           => /\ req.enable_download
              /\ "agent.run" \in req.entered
              /\ req.result \in AgentAnswers
              /\ req'.pc = "returned"
              /\ \/ /\ req'.file # None
                    /\ req'.result = req.result
                 \/ /\ req'.file = None
                    /\ req'.written = {}
                    /\ req'.result.t = "str"
                    /\ StartsWith(req'.result.s, AnalysisText \o s_note)
                    /\ EndsWith(req'.result.s, <<"]">>)
        /\ req'.file # None
           => /\ req'.enable_download
              /\ req'.file.t = "str"
              /\ req'.file.s \in req'.written
        /\ (req.pc = "agent.run" /\ req'.pc = "returned" /\ req'.result \notin AgentAnswers)
           => /\ req'.result.t = "str"
              /\ StartsWith(req'.result.s, s_error_processing)
              /\ req'.file = None
              /\ "download" \notin req'.entered
              /\ req'.written = {}
      ]_vars

\* a failed download after an answer that is not a string
DownloadLosesAnalysis ==
    /\ req.pc = "returned"
    /\ "download" \in req.entered
    /\ req.file = None
    /\ req.result = PyStr(s_error_processing \o s_cannot_concatenate \o s_please_check)

====
